---- MODULE Spec2Model ----
(***************************************************************************)
(* Model of user.go (package discordgo): the User record, its pure         *)
(* accessors (AvatarURL, IsAvatarAnimated, IsMentionedIn) and the methods  *)
(* that lazily create and use the user's DM channel (CreateDM,             *)
(* SendMessage, SendMessageComplex, GetHistory).                           *)
(*                                                                         *)
(* Strings are sequences of symbols, so that concatenation and HasPrefix   *)
(* are computed.  A pointer is a sequence of length at most one: <<>> is   *)
(* nil and <<x>> points to x.  An error is a string, "nil" for no error.   *)
(***************************************************************************)
EXTENDS Integers, Sequences, FiniteSets, TLC

VARIABLES
    u,          \* the User the methods are called on
    uPre,       \* u as it was when the last completed call started
    calls,      \* the calls made on the session and on channels, in order
    ret,        \* what the last completed call was and what it returned
    panicked,   \* a nil pointer was dereferenced: the goroutine is gone
    pc,         \* concurrent callers: each caller's position
    loc         \* concurrent callers: each caller's locals

vars == <<u, uPre, calls, ret, panicked, pc, loc>>

----------------------------------------------------------------------------
(* Bounds *)

MaxAvatarLen == 3
MaxSizeLen == 2
MaxMentions == 2
MaxCalls == 3
NumCallers == 2

----------------------------------------------------------------------------
(* Values *)

Nil == <<>>
Ptr(x) == <<x>>
NoErr == "nil"

AvatarSyms == {"a", "_", "x"}
SizeSyms == {"1", "6"}
UserIDs == {<<"7">>, <<"8">>}
MentionIDs == UserIDs \cup {<<"9">>}
Discriminators == {<<"0">>, <<"4">>}
Usernames == {<<"n">>}
Errors == {"ErrHTTP", "ErrRate"}
ChannelIDs == {<<"c", "1">>, <<"c", "2">>}
MessageIDs == {"m1", "m2"}
Contents == {"hello"}

RECURSIVE SeqsUpTo(_, _)
SeqsUpTo(S, n) ==
    IF n = 0 THEN {<<>>}
    ELSE LET shorter == SeqsUpTo(S, n - 1)
         IN shorter \cup {Append(s, x) : s \in shorter, x \in S}

Avatars == SeqsUpTo(AvatarSyms, MaxAvatarLen)
Sizes == SeqsUpTo(SizeSyms, MaxSizeLen)

Channel(id) == [ID |-> id]
Channels == {Channel(id) : id \in ChannelIDs}

User(id, name, avatar, disc, dm) ==
    [ID |-> id, Username |-> name, Avatar |-> avatar,
     Discriminator |-> disc, DMChannel |-> dm]

Message(everyone, mentions) ==
    [MentionEveryone |-> everyone, Mentions |-> mentions]
MentionLists == SeqsUpTo({[ID |-> id] : id \in MentionIDs}, MaxMentions)
MessagesIn == {Message(e, m) : e \in BOOLEAN, m \in MentionLists}

NoRet == [method |-> "none", arg |-> <<>>, result |-> <<>>, err |-> NoErr,
          called |-> <<>>, panic |-> FALSE]

----------------------------------------------------------------------------
(* Collaborators outside user.go: the CDN endpoints.  Each builds a URL    *)
(* from its arguments; the three are told apart by their fixed parts.      *)

EndpointDefaultUserAvatar(uDiscriminator) ==
    <<"cdn/embed/avatars/">> \o uDiscriminator \o <<".png">>

EndpointUserAvatar(uID, aID) ==
    <<"cdn/avatars/">> \o uID \o <<"/">> \o aID \o <<".png">>

EndpointUserAvatarAnimated(uID, aID) ==
    <<"cdn/avatars/">> \o uID \o <<"/">> \o aID \o <<".gif">>

----------------------------------------------------------------------------
(* Pure methods of User *)

HasPrefix(s, prefix) ==
    /\ Len(s) >= Len(prefix)
    /\ SubSeq(s, 1, Len(prefix)) = prefix

String(usr) == usr.Username \o <<"#">> \o usr.Discriminator

Mention(usr) == <<"<@">> \o usr.ID \o <<">">>

\* AvatarURL with the animated test weakened to the prefix "a".
MutAvatarURLPrefixA(usr, size) ==
    LET URL == IF usr.Avatar = <<>>
               THEN EndpointDefaultUserAvatar(usr.Discriminator)
               ELSE IF HasPrefix(usr.Avatar, <<"a">>)
                    THEN EndpointUserAvatarAnimated(usr.ID, usr.Avatar)
                    ELSE EndpointUserAvatar(usr.ID, usr.Avatar)
    IN IF size # <<>> THEN URL \o <<"?size=">> \o size ELSE URL

\* AvatarURL without the test for an empty size.
MutAvatarURLAlwaysSize(usr, size) ==
    LET URL == IF usr.Avatar = <<>>
               THEN EndpointDefaultUserAvatar(usr.Discriminator)
               ELSE IF HasPrefix(usr.Avatar, <<"a", "_">>)
                    THEN EndpointUserAvatarAnimated(usr.ID, usr.Avatar)
                    ELSE EndpointUserAvatar(usr.ID, usr.Avatar)
    IN URL \o <<"?size=">> \o size

AvatarURL(usr, size) ==
    LET URL == IF usr.Avatar = <<>>
               THEN EndpointDefaultUserAvatar(usr.Discriminator)
               ELSE IF HasPrefix(usr.Avatar, <<"a", "_">>)
                    THEN EndpointUserAvatarAnimated(usr.ID, usr.Avatar)
                    ELSE EndpointUserAvatar(usr.ID, usr.Avatar)
    IN IF size # <<>> THEN URL \o <<"?size=">> \o size ELSE URL

IsAvatarAnimated(usr) == HasPrefix(usr.Avatar, <<"a", "_">>)

RECURSIVE MentionsLoop(_, _, _)
MentionsLoop(usr, mentions, i) ==
    IF i > Len(mentions) THEN FALSE
    ELSE IF mentions[i].ID = usr.ID THEN TRUE
    ELSE MentionsLoop(usr, mentions, i + 1)

\* IsMentionedIn looking at the first mention only.
MutIsMentionedInFirstOnly(usr, message) ==
    IF message.MentionEveryone THEN TRUE
    ELSE Len(message.Mentions) > 0 /\ message.Mentions[1].ID = usr.ID

IsMentionedIn(usr, message) ==
    IF message.MentionEveryone THEN TRUE
    ELSE MentionsLoop(usr, message.Mentions, 1)

----------------------------------------------------------------------------
(* The pure methods as operations on a User *)

Returned(method, arg, result) ==
    [NoRet EXCEPT !.method = method, !.arg = arg, !.result = result]

PureCall(r) ==
    /\ ret' = r
    /\ uPre' = u
    /\ UNCHANGED <<u, calls, panicked, pc, loc>>

StringCall == PureCall(Returned("String", <<>>, String(u)))

MentionCall == PureCall(Returned("Mention", <<>>, Mention(u)))

AvatarURLCall ==
    \E size \in Sizes : PureCall(Returned("AvatarURL", size, AvatarURL(u, size)))

IsAvatarAnimatedCall ==
    PureCall(Returned("IsAvatarAnimated", <<>>, IsAvatarAnimated(u)))

IsMentionedInCall ==
    \E message \in MessagesIn :
        PureCall(Returned("IsMentionedIn", message, IsMentionedIn(u, message)))

Callers == 1 .. NumCallers

NoLocals == [method |-> "none", data |-> "", channel |-> Nil, err |-> NoErr,
             message |-> Nil]

InitRest ==
    /\ uPre = u
    /\ calls = <<>>
    /\ ret = NoRet
    /\ panicked = FALSE
    /\ pc = [t \in Callers |-> "idle"]
    /\ loc = [t \in Callers |-> NoLocals]

InitPure ==
    /\ u \in {User(id, name, avatar, disc, Nil) :
                id \in UserIDs, name \in Usernames,
                avatar \in Avatars, disc \in Discriminators}
    /\ InitRest

NextPure ==
    \/ StringCall
    \/ MentionCall
    \/ AvatarURLCall
    \/ IsAvatarAnimatedCall
    \/ IsMentionedInCall

SpecPure == InitPure /\ [][NextPure]_vars

----------------------------------------------------------------------------
(* Claims about the pure methods, checked under SpecPure *)

SizeSuffix(size) == IF size = <<>> THEN <<>> ELSE <<"?size=">> \o size

\* The part of an AvatarURL result that precedes the size parameter.
BaseOf(url, size) == SubSeq(url, 1, Len(url) - Len(SizeSuffix(size)))

StartsWithA_(avatar) ==
    Len(avatar) >= 2 /\ avatar[1] = "a" /\ avatar[2] = "_"

\* C5: AvatarURL takes its base URL from exactly one of three cases on
\* u.Avatar: empty gives the default-avatar endpoint of u.Discriminator, a
\* hash starting with "a_" gives the animated endpoint of (u.ID, u.Avatar),
\* any other hash gives the static endpoint of (u.ID, u.Avatar); so the
\* animated endpoint is used exactly when IsAvatarAnimated is true.
C5_AvatarURLCases ==
    ret.method = "AvatarURL" =>
        LET base == BaseOf(ret.result, ret.arg)
        IN /\ u.Avatar = <<>> =>
                base = EndpointDefaultUserAvatar(u.Discriminator)
           /\ (u.Avatar # <<>> /\ StartsWithA_(u.Avatar)) =>
                base = EndpointUserAvatarAnimated(u.ID, u.Avatar)
           /\ (u.Avatar # <<>> /\ ~StartsWithA_(u.Avatar)) =>
                base = EndpointUserAvatar(u.ID, u.Avatar)
           /\ (base = EndpointUserAvatarAnimated(u.ID, u.Avatar))
                <=> IsAvatarAnimated(u)

C5_Witness ==
    /\ ret.method = "AvatarURL"
    /\ u.Avatar = <<"a", "_", "x">>
    /\ ret.arg = <<>>
    /\ ret.result = EndpointUserAvatarAnimated(u.ID, u.Avatar)

\* C6: AvatarURL(size) is AvatarURL("") when size is empty and AvatarURL("")
\* followed by "?size=" and size otherwise; an empty size adds no size
\* parameter in any of the three avatar cases.
C6_SizeParameter ==
    ret.method = "AvatarURL" =>
        /\ ret.arg = <<>> =>
              /\ ret.result = AvatarURL(u, <<>>)
              /\ \A i \in 1 .. Len(ret.result) : ret.result[i] # "?size="
        /\ ret.arg # <<>> =>
              ret.result = AvatarURL(u, <<>>) \o <<"?size=">> \o ret.arg

C6_Witness ==
    /\ ret.method = "AvatarURL"
    /\ u.Avatar = <<>>
    /\ ret.arg = <<"1", "6">>
    /\ ret.result =
         EndpointDefaultUserAvatar(u.Discriminator) \o <<"?size=", "1", "6">>

\* C7: IsMentionedIn(message) is true exactly when message.MentionEveryone
\* is true or some user of message.Mentions has u's ID (so it is false for
\* no mention at all), and the call leaves the User as it was.
C7_IsMentionedIn ==
    ret.method = "IsMentionedIn" =>
        /\ ret.result =
             (\/ ret.arg.MentionEveryone
              \/ \E i \in 1 .. Len(ret.arg.Mentions) :
                    ret.arg.Mentions[i].ID = u.ID)
        /\ (~ret.arg.MentionEveryone /\ ret.arg.Mentions = <<>>) =>
             ret.result = FALSE
        /\ u = uPre

C7_Witness ==
    /\ ret.method = "IsMentionedIn"
    /\ ~ret.arg.MentionEveryone
    /\ Len(ret.arg.Mentions) = 2
    /\ ret.arg.Mentions[1].ID # u.ID
    /\ ret.arg.Mentions[2].ID = u.ID
    /\ ret.result = TRUE

----------------------------------------------------------------------------
(* Collaborators outside user.go: the session and the channel.  Each call  *)
(* either succeeds with a value or fails with an error; which, and with    *)
(* what, is the collaborator's choice.  Every call is recorded in calls.   *)

Outcome(value, err) == [value |-> value, err |-> err]

CreateOutcomes ==
    {Outcome(Ptr(c), NoErr) : c \in Channels}
        \cup {Outcome(Nil, e) : e \in Errors}

SendOutcomes ==
    {Outcome(Ptr([ID |-> m]), NoErr) : m \in MessageIDs}
        \cup {Outcome(Nil, e) : e \in Errors}

HistoryOutcomes ==
    {Outcome(<<[ID |-> "m1"]>>, NoErr)}
        \cup {Outcome(<<>>, e) : e \in Errors}

HistoryArgs ==
    {[limit |-> 50, beforeID |-> "m2", afterID |-> "", aroundID |-> ""]}

UserChannelCreate(recipientID, out) ==
    [op |-> "UserChannelCreate", target |-> recipientID, data |-> "",
     res |-> out]

ChannelSend(op, channel, data, out) ==
    [op |-> op, target |-> channel, data |-> data, res |-> out]

ChannelMessages(channelID, args, out) ==
    [op |-> "ChannelMessages", target |-> channelID, data |-> args,
     res |-> out]

----------------------------------------------------------------------------
(* The DM methods of User.  Each yields the User as the method leaves it,  *)
(* the value and error it returns, the calls it made, and whether it       *)
(* dereferenced a nil pointer.                                             *)

Result(usr, value, err, called) ==
    [u |-> usr, value |-> value, err |-> err, called |-> called,
     panic |-> FALSE]

NilDereference(usr, called) ==
    [u |-> usr, value |-> Nil, err |-> NoErr, called |-> called,
     panic |-> TRUE]

\* CreateDM without the assignment to u.DMChannel.
MutCreateDMNoAssign(usr, outC) ==
    IF usr.DMChannel # Nil
    THEN Result(usr, Nil, NoErr, <<>>)
    ELSE Result(usr, Nil, outC.err, <<UserChannelCreate(usr.ID, outC)>>)

\* CreateDM without the early return on a non-nil u.DMChannel.
MutCreateDMNoGuard(usr, outC) ==
    LET channel == outC.value
        err == outC.err
    IN Result(IF err = NoErr
              THEN [usr EXCEPT !.DMChannel = channel]
              ELSE usr,
              Nil, err, <<UserChannelCreate(usr.ID, outC)>>)

CreateDM(usr, outC) ==
    IF usr.DMChannel # Nil
    THEN Result(usr, Nil, NoErr, <<>>)
    ELSE LET channel == outC.value
             err == outC.err
         IN Result(IF err = NoErr
                   THEN [usr EXCEPT !.DMChannel = channel]
                   ELSE usr,
                   Nil, err, <<UserChannelCreate(usr.ID, outC)>>)

\* u.DMChannel.SendMessage / u.DMChannel.SendMessageComplex, after the
\* calls of c.
Delegate(op, c, data, outS) ==
    IF c.u.DMChannel = Nil
    THEN NilDereference(c.u, c.called)
    ELSE Result(c.u, outS.value, outS.err,
                Append(c.called, ChannelSend(op, c.u.DMChannel[1], data, outS)))

\* SendMessage returning the send's error but not its message.
MutSendMessageDropsMessage(usr, content, outC, outS) ==
    LET c == IF usr.DMChannel = Nil
             THEN CreateDM(usr, outC)
             ELSE Result(usr, Nil, NoErr, <<>>)
        d == Delegate("Channel.SendMessage", c, content, outS)
    IN IF c.err # NoErr
       THEN Result(c.u, Nil, c.err, c.called)
       ELSE [d EXCEPT !.value = Nil]

\* SendMessage without the check of CreateDM's error.
MutSendMessageIgnoresErr(usr, content, outC, outS) ==
    LET c == IF usr.DMChannel = Nil
             THEN CreateDM(usr, outC)
             ELSE Result(usr, Nil, NoErr, <<>>)
    IN Delegate("Channel.SendMessage", c, content, outS)

SendMessage(usr, content, outC, outS) ==
    LET c == IF usr.DMChannel = Nil
             THEN CreateDM(usr, outC)
             ELSE Result(usr, Nil, NoErr, <<>>)
    IN IF c.err # NoErr
       THEN Result(c.u, Nil, c.err, c.called)
       ELSE Delegate("Channel.SendMessage", c, content, outS)

SendMessageComplex(usr, data, outC, outS) ==
    LET c == IF usr.DMChannel = Nil
             THEN CreateDM(usr, outC)
             ELSE Result(usr, Nil, NoErr, <<>>)
    IN IF c.err # NoErr
       THEN Result(c.u, Nil, c.err, c.called)
       ELSE Delegate("Channel.SendMessageComplex", c, data, outS)

GetHistory(usr, args, outH) ==
    IF usr.DMChannel = Nil
    THEN NilDereference(usr, <<>>)
    ELSE Result(usr, outH.value, outH.err,
                <<ChannelMessages(usr.DMChannel[1].ID, args, outH)>>)

----------------------------------------------------------------------------
(* The DM methods as operations, called one after another *)

Complete(method, arg, r) ==
    /\ ~panicked
    /\ Len(calls) + Len(r.called) <= MaxCalls
    /\ u' = r.u
    /\ uPre' = u
    /\ calls' = calls \o r.called
    /\ ret' = [method |-> method, arg |-> arg, result |-> r.value,
               err |-> r.err, called |-> r.called, panic |-> r.panic]
    /\ panicked' = r.panic
    /\ UNCHANGED <<pc, loc>>

CreateDMCall ==
    \E outC \in CreateOutcomes :
        Complete("CreateDM", <<>>, CreateDM(u, outC))

SendMessageCall ==
    \E content \in Contents, outC \in CreateOutcomes, outS \in SendOutcomes :
        Complete("SendMessage", content, SendMessage(u, content, outC, outS))

SendMessageComplexCall ==
    \E data \in Contents, outC \in CreateOutcomes, outS \in SendOutcomes :
        Complete("SendMessageComplex", data,
                 SendMessageComplex(u, data, outC, outS))

GetHistoryCall ==
    \E args \in HistoryArgs, outH \in HistoryOutcomes :
        Complete("GetHistory", args, GetHistory(u, args, outH))

Init ==
    /\ u \in {User(id, name, <<>>, <<"0">>, dm) :
                id \in UserIDs, name \in Usernames,
                dm \in {Nil} \cup {Ptr(c) : c \in Channels}}
    /\ InitRest

Next ==
    \/ CreateDMCall
    \/ SendMessageCall
    \/ SendMessageComplexCall
    \/ GetHistoryCall

Spec == Init /\ [][Next]_vars

----------------------------------------------------------------------------
(* Claims about the DM methods called one after another, checked under     *)
(* Spec.  ret.called holds the calls the last method made, uPre the User   *)
(* it was called on.                                                       *)

IsSend == ret.method \in {"SendMessage", "SendMessageComplex"}

IsLazy == ret.method \in {"CreateDM", "SendMessage", "SendMessageComplex"}

SendOpOf(method) ==
    IF method = "SendMessage" THEN "Channel.SendMessage"
    ELSE "Channel.SendMessageComplex"

CreatesIn(log) == {i \in 1 .. Len(log) : log[i].op = "UserChannelCreate"}

SendsIn(log) ==
    {i \in 1 .. Len(log) :
        log[i].op \in {"Channel.SendMessage", "Channel.SendMessageComplex"}}

CalledIsTailOfCalls ==
    /\ Len(ret.called) <= Len(calls)
    /\ SubSeq(calls, Len(calls) - Len(ret.called) + 1, Len(calls)) = ret.called

\* C1: SendMessage and SendMessageComplex on a User whose DMChannel is nil
\* first create the DM channel for u.ID and, only when that succeeded, send
\* on the channel now in u.DMChannel; no send precedes the creation, and the
\* message and error returned are those of the channel's send.
C1_CreateThenSend ==
    (IsSend /\ uPre.DMChannel = Nil) =>
        /\ CalledIsTailOfCalls
        /\ ~ret.panic
        /\ Len(ret.called) >= 1
        /\ ret.called[1].op = "UserChannelCreate"
        /\ ret.called[1].target = uPre.ID
        /\ ret.called[1].res.err # NoErr => Len(ret.called) = 1
        /\ ret.called[1].res.err = NoErr =>
              /\ Len(ret.called) = 2
              /\ u.DMChannel = ret.called[1].res.value
              /\ ret.called[2].op = SendOpOf(ret.method)
              /\ Ptr(ret.called[2].target) = u.DMChannel
              /\ ret.result = ret.called[2].res.value
              /\ ret.err = ret.called[2].res.err

C1_Witness ==
    /\ ret.method = "SendMessageComplex"
    /\ uPre.DMChannel = Nil
    /\ Len(ret.called) = 2
    /\ ret.called[2].op = "Channel.SendMessageComplex"
    /\ ret.result = Ptr([ID |-> "m2"])
    /\ ret.err = NoErr

\* C2: CreateDM on a User whose DMChannel is nil calls the session's channel
\* creation with u.ID exactly once; when the call succeeds u.DMChannel is the
\* returned channel and CreateDM returns no error.
C2_CreateDMOnNil ==
    (ret.method = "CreateDM" /\ uPre.DMChannel = Nil) =>
        /\ CalledIsTailOfCalls
        /\ Len(ret.called) = 1
        /\ ret.called[1].op = "UserChannelCreate"
        /\ ret.called[1].target = uPre.ID
        /\ ret.called[1].res.err = NoErr =>
              /\ u.DMChannel = ret.called[1].res.value
              /\ u.DMChannel # Nil
              /\ ret.err = NoErr

C2_Witness ==
    /\ ret.method = "CreateDM"
    /\ uPre.DMChannel = Nil
    /\ u.DMChannel = Ptr(Channel(<<"c", "2">>))
    /\ ret.err = NoErr

\* C3: CreateDM on a User whose DMChannel is not nil calls nothing, leaves
\* every field of the User as it was and returns no error; SendMessage and
\* SendMessageComplex on such a User make no channel-creation call.
C3_NoCreateWhenPresent ==
    /\ (ret.method = "CreateDM" /\ uPre.DMChannel # Nil) =>
          /\ ret.called = <<>>
          /\ u = uPre
          /\ ret.err = NoErr
    /\ (IsSend /\ uPre.DMChannel # Nil) =>
          /\ CreatesIn(ret.called) = {}
          /\ u.DMChannel = uPre.DMChannel

C3_Witness ==
    /\ ret.method = "CreateDM"
    /\ uPre.DMChannel # Nil
    /\ CreatesIn(calls) # {}
    /\ SendsIn(calls) # {}

\* C4: when the channel creation fails while u.DMChannel is nil, CreateDM,
\* SendMessage and SendMessageComplex return that error, u.DMChannel stays
\* nil, nothing is sent, the returned message is nil; and a call made while
\* u.DMChannel is nil always attempts the creation (so a later call retries).
C4_CreateFails ==
    (IsLazy /\ uPre.DMChannel = Nil) =>
        /\ Len(ret.called) >= 1
        /\ ret.called[1].op = "UserChannelCreate"
        /\ ret.called[1].res.err # NoErr =>
              /\ ret.err = ret.called[1].res.err
              /\ u.DMChannel = Nil
              /\ Len(ret.called) = 1
              /\ SendsIn(ret.called) = {}
              /\ ret.result = Nil
              /\ ~ret.panic

C4_Witness ==
    /\ ret.method = "SendMessage"
    /\ Len(calls) = 3
    /\ calls[1].op = "UserChannelCreate"
    /\ calls[1].res.err = "ErrHTTP"
    /\ calls[2].op = "UserChannelCreate"
    /\ calls[2].res.err = "ErrRate"
    /\ calls[3].op = "UserChannelCreate"
    /\ ret.err = "ErrRate"
    /\ u.DMChannel = Nil

\* C8: no method that uses the DM channel dereferences a nil DMChannel; in
\* particular GetHistory on a User whose DMChannel is nil creates the channel
\* and fetches from it instead of faulting.
C8_NoNilDereference ==
    ret.method \in {"SendMessage", "SendMessageComplex", "GetHistory"} =>
        /\ ~ret.panic
        /\ (ret.method = "GetHistory" /\ uPre.DMChannel = Nil) =>
              /\ Len(ret.called) >= 1
              /\ ret.called[1].op = "UserChannelCreate"

SuccessfulCreates(log) == {i \in CreatesIn(log) : log[i].res.err = NoErr}

C9_State ==
    /\ Cardinality(SuccessfulCreates(calls)) <= 1
    /\ \A i \in SuccessfulCreates(calls) :
          /\ u.DMChannel = calls[i].res.value
          /\ \A j \in SendsIn(calls) : j > i
    /\ \A j \in SendsIn(calls) : Ptr(calls[j].target) = u.DMChannel

\* C9: over any sequence of CreateDM, SendMessage, SendMessageComplex and
\* GetHistory calls, u.DMChannel changes at most once, from nil to the
\* channel of the first successful creation, and is never reset or replaced;
\* so at most one creation succeeds and every send targets that channel.
C9_ChannelSetOnce ==
    [][/\ u.DMChannel # Nil => u'.DMChannel = u.DMChannel
       /\ u'.DMChannel # u.DMChannel =>
             /\ SuccessfulCreates(calls) = {}
             /\ \E i \in SuccessfulCreates(calls') :
                   u'.DMChannel = calls'[i].res.value
       /\ C9_State']_vars

C9_Witness ==
    /\ Len(calls) = 3
    /\ calls[1].op = "UserChannelCreate"
    /\ calls[1].res.err = NoErr
    /\ calls[2].op = "Channel.SendMessage"
    /\ calls[3].op = "Channel.SendMessageComplex"
    /\ ret.method = "CreateDM"
    /\ u.DMChannel = calls[1].res.value

----------------------------------------------------------------------------
(* The DM methods called by several goroutines at once on one User.  The   *)
(* methods take no lock, so callers interleave between any two accesses to *)
(* u.DMChannel and between an access and a call on the session.            *)

LazyMethods == {"CreateDM", "SendMessage", "SendMessageComplex"}

\* Where CreateDM returns to: its own caller, or the send method's check of
\* the error.
AfterCreateDM(t) ==
    IF loc[t].method = "CreateDM" THEN "done" ELSE "send_check_err"

Step(t, from, to) ==
    /\ ~panicked
    /\ pc[t] = from
    /\ pc' = [pc EXCEPT ![t] = to]

Invoke(t) ==
    \E m \in LazyMethods, data \in Contents :
        /\ Step(t, "idle", IF m = "CreateDM" THEN "createdm_check"
                           ELSE "send_check")
        /\ loc' = [loc EXCEPT ![t] = [NoLocals EXCEPT !.method = m,
                                                       !.data = data]]
        /\ UNCHANGED <<u, uPre, calls, ret, panicked>>

SendCheckNil(t) ==
    /\ Step(t, "send_check", IF u.DMChannel = Nil THEN "createdm_check"
                             ELSE "send_delegate")
    /\ UNCHANGED <<u, uPre, calls, ret, panicked, loc>>

CreateDMCheckNil(t) ==
    /\ Step(t, "createdm_check", IF u.DMChannel # Nil THEN AfterCreateDM(t)
                                 ELSE "createdm_call")
    /\ UNCHANGED <<u, uPre, calls, ret, panicked, loc>>

CreateDMCallSession(t) ==
    \E outC \in CreateOutcomes :
        /\ Step(t, "createdm_call", "createdm_assign")
        /\ calls' = Append(calls, UserChannelCreate(u.ID, outC))
        /\ loc' = [loc EXCEPT ![t].channel = outC.value, ![t].err = outC.err]
        /\ UNCHANGED <<u, uPre, ret, panicked>>

CreateDMAssign(t) ==
    /\ Step(t, "createdm_assign", AfterCreateDM(t))
    /\ u' = IF loc[t].err = NoErr
            THEN [u EXCEPT !.DMChannel = loc[t].channel]
            ELSE u
    /\ UNCHANGED <<uPre, calls, ret, panicked, loc>>

SendCheckErr(t) ==
    /\ Step(t, "send_check_err", IF loc[t].err # NoErr THEN "done"
                                 ELSE "send_delegate")
    /\ UNCHANGED <<u, uPre, calls, ret, panicked, loc>>

SendDelegate(t) ==
    \E outS \in SendOutcomes :
        /\ Step(t, "send_delegate", "done")
        /\ IF u.DMChannel = Nil
           THEN /\ panicked' = TRUE
                /\ UNCHANGED <<calls, loc>>
           ELSE /\ calls' = Append(calls,
                              ChannelSend(SendOpOf(loc[t].method),
                                          u.DMChannel[1], loc[t].data, outS))
                /\ loc' = [loc EXCEPT ![t].message = outS.value,
                                      ![t].err = outS.err]
                /\ UNCHANGED panicked
        /\ UNCHANGED <<u, uPre, ret>>

NextConc ==
    \E t \in Callers :
        \/ Invoke(t)
        \/ SendCheckNil(t)
        \/ CreateDMCheckNil(t)
        \/ CreateDMCallSession(t)
        \/ CreateDMAssign(t)
        \/ SendCheckErr(t)
        \/ SendDelegate(t)

SpecConc == Init /\ [][NextConc]_vars

\* C10: when several callers invoke CreateDM, SendMessage or
\* SendMessageComplex at once on a User whose DMChannel is nil, at most one
\* channel creation succeeds for that User and u.DMChannel, once assigned,
\* is not overwritten by another caller's channel.
C10_AtomicLazyCreate ==
    [][/\ Cardinality(SuccessfulCreates(calls')) <= 1
       /\ u.DMChannel # Nil => u'.DMChannel = u.DMChannel]_vars

====
